---- MODULE Spec2Model ----
(***************************************************************************)
(* Model of the Outline MCP tool generator (scripts/generate-tools.mjs):   *)
(* name derivation, reference resolution, allOf merging, schema-to-zod     *)
(* compilation and the generation run that emits the tool definitions;     *)
(* and of the server (src/index.ts): transport selection at start-up and   *)
(* the HTTP request handler.                                               *)
(*                                                                         *)
(* Strings the code inspects character by character are sequences of       *)
(* one-character strings.  A JavaScript object is a record; an absent key  *)
(* is a missing record field ("k" \in DOMAIN r is the truthiness test of a *)
(* key whose value, when present, is truthy).                              *)
(***************************************************************************)
EXTENDS Integers, Sequences, FiniteSets, TLC

VARIABLES pc, spec, opIndex, tools, artifact, input, output, requests

vars == <<pc, spec, opIndex, tools, artifact, input, output, requests>>

\* ---------------------------------------------------------------- bounds
MaxNameLen == 3

MaxNest == 10

MaxBranches == 3

MaxEnumLen == 2

\* how far the reference semantics of a schema follows references
MaxUnroll == 14

\* command-line arguments after the script name
MaxArgs == 2

\* HTTP requests in flight at the same time
MaxRequests == 2

\* ------------------------------------------------------------ characters
LetterPairs ==
  << <<"a","A">>, <<"b","B">>, <<"c","C">>, <<"d","D">>, <<"e","E">>,
     <<"f","F">>, <<"g","G">>, <<"h","H">>, <<"i","I">>, <<"j","J">>,
     <<"k","K">>, <<"l","L">>, <<"m","M">>, <<"n","N">>, <<"o","O">>,
     <<"p","P">>, <<"q","Q">>, <<"r","R">>, <<"s","S">>, <<"t","T">>,
     <<"u","U">>, <<"v","V">>, <<"w","W">>, <<"x","X">>, <<"y","Y">>,
     <<"z","Z">> >>

LowerLetters == { LetterPairs[i][1] : i \in 1..Len(LetterPairs) }

UpperLetters == { LetterPairs[i][2] : i \in 1..Len(LetterPairs) }

Digits == {"0","1","2","3","4","5","6","7","8","9"}

\* [a-zA-Z0-9_]
WordChars == LowerLetters \cup UpperLetters \cup Digits \cup {"_"}

\* String.prototype.toLowerCase on one character
LowerChar(c) ==
  IF c \in UpperLetters
    THEN LetterPairs[CHOOSE i \in 1..Len(LetterPairs) : LetterPairs[i][2] = c][1]
    ELSE c

\* ------------------------------------------------------------ toSnakeCase
\* .replace(/^\//, "")
StripLeadingSlash(s) ==
  IF Len(s) > 0 /\ s[1] = "/" THEN Tail(s) ELSE s

DotToUnderscore(c) == IF c = "." THEN "_" ELSE c

\* .replace(/\./g, "_")
ReplaceDots(s) == [i \in 1..Len(s) |-> DotToUnderscore(s[i])]

\* the first capture group of /([a-z0-9])([A-Z])/
CamelLeftLowerOnly(c) == c \in LowerLetters

CamelLeft(c) == c \in LowerLetters \cup Digits

\* the second capture group of /([a-z0-9])([A-Z])/
CamelRight(c) == c \in UpperLetters

\* .replace(/([a-z0-9])([A-Z])/g, "$1_$2"): a left-to-right scan for
\* non-overlapping two-character matches
RECURSIVE CamelSplit(_)
CamelSplit(s) ==
  IF Len(s) < 2 THEN s
  ELSE IF CamelLeft(s[1]) /\ CamelRight(s[2])
    THEN <<s[1], "_", s[2]>> \o CamelSplit(SubSeq(s, 3, Len(s)))
    ELSE <<s[1]>> \o CamelSplit(Tail(s))

NonWordToUnderscore(c) == IF c \in WordChars THEN c ELSE "_"

\* .replace(/[^a-zA-Z0-9_]/g, "_")
ReplaceNonWord(s) == [i \in 1..Len(s) |-> NonWordToUnderscore(s[i])]

\* .replace(/__+/g, "_"): every run of two or more underscores becomes one
RECURSIVE CollapseUnderscores(_)
CollapseUnderscores(s) ==
  IF Len(s) < 2 THEN s
  ELSE IF s[1] = "_" /\ s[2] = "_"
    THEN CollapseUnderscores(Tail(s))
    ELSE <<s[1]>> \o CollapseUnderscores(Tail(s))

\* .toLowerCase()
ToLowerCase(s) == [i \in 1..Len(s) |-> LowerChar(s[i])]

toSnakeCase(value) ==
  ToLowerCase(CollapseUnderscores(ReplaceNonWord(CamelSplit(
    ReplaceDots(StripLeadingSlash(value))))))

\* "outline_"
NamePrefix == <<"o","u","t","l","i","n","e","_">>

\* pathKey.replace(/^\//, "")
MethodName(pathKey) == StripLeadingSlash(pathKey)

\* operation.operationId ?? methodName
OperationId(operation, pathKey) ==
  IF "operationId" \in DOMAIN operation
    THEN operation.operationId
    ELSE MethodName(pathKey)

\* `outline_${toSnakeCase(operationId)}`
ToolName(operation, pathKey) ==
  NamePrefix \o toSnakeCase(OperationId(operation, pathKey))

\* ------------------------------------------------------------ annotations
\* the alternatives of READ_ONLY_PATTERN (line 9)
READ_ONLY_PATTERN ==
  { <<"l","i","s","t">>, <<"i","n","f","o">>, <<"s","e","a","r","c","h">>,
    <<"c","o","n","f","i","g">>, <<"r","e","d","i","r","e","c","t">>,
    <<"e","x","p","o","r","t">>, <<"h","i","s","t","o","r","y">>,
    <<"d","i","f","f">>, <<"v","i","e","w">>, <<"v","i","e","w","s">>,
    <<"c","o","u","n","t">>, <<"c","o","u","n","t","s">>,
    <<"s","t","a","t","s">>, <<"p","i","n","g">>, <<"c","h","e","c","k">> }

\* the alternatives of DESTRUCTIVE_PATTERN (line 10)
DESTRUCTIVE_PATTERN ==
  { <<"d","e","l","e","t","e">>, <<"r","e","m","o","v","e">>,
    <<"d","e","s","t","r","o","y">> }

\* an unanchored alternation matches when some alternative occurs in the string
Occurs(pattern, s) ==
  \E token \in pattern :
    \E i \in 1..(Len(s) - Len(token) + 1) : SubSeq(s, i, i + Len(token) - 1) = token

\* a test without the i flag
CaseSensitiveTest(pattern, s) == Occurs(pattern, s)

\* RegExp.prototype.test with the i flag
PatternTest(pattern, s) == Occurs(pattern, ToLowerCase(s))

\* annotations: { readOnlyHint, destructiveHint, idempotentHint: readOnlyHint,
\* openWorldHint: true } (lines 276-297)
Annotations(operationId) ==
  [readOnlyHint |-> PatternTest(READ_ONLY_PATTERN, operationId),
   destructiveHint |-> PatternTest(DESTRUCTIVE_PATTERN, operationId),
   idempotentHint |-> PatternTest(READ_ONLY_PATTERN, operationId),
   openWorldHint |-> TRUE]

\* ------------------------------------------------------- JavaScript values
\* {}
Empty == [x \in {} |-> x]

\* null (a falsy schema)
Null == [null |-> TRUE]

Has(r, k) == k \in DOMAIN r

Max2(a, b) == IF a >= b THEN a ELSE b

\* JSON scalars (enum members, examples, payload values)
JStr(s) == [t |-> "string", s |-> s]

JNum(n) == [t |-> "number", n |-> n]

\* additionalProperties: true / false (a schema value is the schema itself)
ApTrue == [bool |-> TRUE]

ApFalse == [bool |-> FALSE]

\* a "$ref" string "#/a/b/c" is the sequence <<"#","a","b","c">>
SchemaRef(name) == [ref |-> <<"#", "components", "schemas", name>>]

\* ------------------------------------------------------------- resolveRef
MAX_SCHEMA_DEPTH == 8

\* ref.startsWith("#/")
StartsWithHashSlash(ref) == Len(ref) >= 2 /\ ref[1] = "#"

\* the loop of resolveRef: part in current ? current[part] : throw
RECURSIVE WalkPointer(_, _)
WalkPointer(current, parts) ==
  IF parts = <<>> THEN [found |-> TRUE, value |-> current]
  ELSE IF Head(parts) \in DOMAIN current
    THEN WalkPointer(current[Head(parts)], Tail(parts))
    ELSE [found |-> FALSE, value |-> Empty]

\* a lookup that yields undefined instead of throwing
ResolveRefOrUndefined(doc, ref) ==
  IF ~StartsWithHashSlash(ref)
    THEN [thrown |-> FALSE, value |-> Null]
    ELSE LET w == WalkPointer(doc, Tail(ref))
         IN  [thrown |-> FALSE, value |-> IF w.found THEN w.value ELSE Null]

\* returns the target, or thrown = TRUE for "Unsupported $ref" / "Unresolvable $ref"
resolveRef(doc, ref) ==
  IF ~StartsWithHashSlash(ref)
    THEN [thrown |-> TRUE, value |-> Empty]
    ELSE LET w == WalkPointer(doc, Tail(ref))
         IN  [thrown |-> ~w.found, value |-> w.value]

\* ------------------------------------------- derefSchema / mergeAllOfSchemas
\* Both return [val, seen, thrown, maxd]: the resolved schema, the visited set
\* as the call leaves it (seenRefs is one mutable Set passed by reference), whether
\* resolveRef threw, and the largest depth argument any derefSchema call received.
DerefResult(val, seen, thrown, maxd) ==
  [val |-> val, seen |-> seen, thrown |-> thrown, maxd |-> maxd]

\* a bound checked two levels late
DepthExceededLate(depth) == depth > MAX_SCHEMA_DEPTH + 2

\* depth > MAX_SCHEMA_DEPTH
DepthExceeded(depth) == depth > MAX_SCHEMA_DEPTH

\* seenRefs.has(schema.$ref)
SeenHas(seen, ref) == ref \in seen

\* the Set handed to the next allOf branch: the same object the previous branch filled
BranchSeen(seenBefore, seenAfterPrevious) == seenAfterPrevious

RECURSIVE derefSchema(_, _, _, _)
RECURSIVE MergeLoop(_, _, _, _, _, _, _)

\* the body of the for-loop for branch i, r being its resolved branch:
\* Object.assign(mergedProperties, ...), mergedRequired.push(...)
MergeStep(doc, schemas, i, seen, depth, acc, maxd, r) ==
  IF r.thrown THEN DerefResult(Empty, r.seen, TRUE, Max2(maxd, r.maxd))
  ELSE MergeLoop(doc, schemas, i + 1, BranchSeen(seen, r.seen), depth,
                 [properties |-> IF Has(r.val, "properties")
                                   THEN r.val.properties @@ acc.properties
                                   ELSE acc.properties,
                  required |-> IF Has(r.val, "required")
                                 THEN acc.required \o r.val.required
                                 ELSE acc.required],
                 Max2(maxd, r.maxd))

\* the for-loop of mergeAllOfSchemas from branch i on
MergeLoop(doc, schemas, i, seen, depth, acc, maxd) ==
  IF i > Len(schemas) THEN DerefResult(acc, seen, FALSE, maxd)
  ELSE MergeStep(doc, schemas, i, seen, depth, acc, maxd,
                 derefSchema(doc, schemas[i], seen, depth + 1))

\* the object mergeAllOfSchemas returns, m being the outcome of its loop
MergedSchema(m) ==
  IF m.thrown THEN m
  ELSE DerefResult([type |-> "object", properties |-> m.val.properties]
                   @@ (IF Len(m.val.required) > 0
                         THEN [required |-> m.val.required] ELSE Empty),
                   m.seen, FALSE, m.maxd)

mergeAllOfSchemas(doc, schemas, seen, depth) ==
  MergedSchema(MergeLoop(doc, schemas, 1, seen, depth,
                         [properties |-> Empty, required |-> <<>>], depth))

\* line 70, target being what resolveRef returned (or that it threw)
DerefTarget(doc, target, seen, depth) ==
  IF target.thrown THEN DerefResult(Empty, seen, TRUE, depth)
  ELSE derefSchema(doc, target.value, seen, depth + 1)

derefSchema(doc, schema, seen, depth) ==
  IF Has(schema, "null") THEN DerefResult(Empty, seen, FALSE, depth)
  ELSE IF DepthExceeded(depth) THEN DerefResult(Empty, seen, FALSE, depth)
  ELSE IF Has(schema, "ref") THEN
    IF SeenHas(seen, schema.ref) THEN DerefResult(Empty, seen, FALSE, depth)
    ELSE DerefTarget(doc, resolveRef(doc, schema.ref), seen \cup {schema.ref}, depth)
  ELSE IF Has(schema, "allOf") THEN
    mergeAllOfSchemas(doc, schema.allOf, seen, depth)
  ELSE DerefResult(schema, seen, FALSE, depth)

\* ------------------------------------------------------ validator expressions
\* The generated zod source text, kept as the tree of calls it spells.
ZAny == [k |-> "any"]

ZString == [k |-> "string"]

ZNumber == [k |-> "number"]

ZBoolean == [k |-> "boolean"]

\* z.enum([...])
ZEnum(values) == [k |-> "enum", values |-> values]

\* z.literal(JSON.stringify(value))
literalExpression(value) == [k |-> "literal", value |-> value]

\* z.union([...])
ZUnion(options) == [k |-> "union", options |-> options]

\* z.array(item)
ZArray(item) == [k |-> "array", item |-> item]

\* z.object({...}).strict() / .passthrough() / .catchall(c)
ZObject(shape, unknownKeys, catchall) ==
  [k |-> "object", shape |-> shape, unknownKeys |-> unknownKeys,
   catchall |-> catchall]

\* expr.optional()
ZOptional(inner) == [k |-> "optional", inner |-> inner]

\* expr.nullable()
ZNullable(inner) == [k |-> "nullable", inner |-> inner]

\* expr.describe(text)
ZDescribe(inner, text) == [k |-> "describe", inner |-> inner, text |-> text]

\* ------------------------------------------------------ schemaToZodExpression
\* returns [expr, thrown, maxd]; maxd is the largest depth argument received by
\* any schemaToZodExpression or derefSchema call made below this one.
ZodResult(expr, thrown, maxd) == [expr |-> expr, thrown |-> thrown, maxd |-> maxd]

\* resolved.type
TypeOf(resolved) == IF Has(resolved, "type") THEN resolved.type ELSE "undefined"

\* schemaType === "object" || hasProperties
IsObjectShape(resolved) == TypeOf(resolved) = "object" \/ Has(resolved, "properties")

\* Array.isArray(resolved.enum) && resolved.enum.length > 0
HasEnum(resolved) == Has(resolved, "enum") /\ Len(resolved.enum) > 0

IsStringValue(value) == value.t = "string"

\* a truthy additionalProperties: true or a schema object
ApTruthy(resolved) ==
  Has(resolved, "additionalProperties") /\ resolved.additionalProperties # ApFalse

\* new Set(resolved.required ?? [])
RequiredSet(resolved) ==
  IF Has(resolved, "required")
    THEN { resolved.required[i] : i \in 1..Len(resolved.required) }
    ELSE {}

\* the wrapping of one property expression (lines 112-117)
OptionalOnlyWrap(inner, isRequired, isOutput) ==
  IF isRequired THEN inner ELSE ZOptional(inner)

PropertyWrap(inner, isRequired, isOutput) ==
  IF isRequired THEN inner
  ELSE IF isOutput THEN ZNullable(ZOptional(inner))
  ELSE ZOptional(inner)

\* a policy that never rejects an unknown key
LaxEverywhere(isOutput, resolved) == "passthrough"

\* the extensibility policy of an object (lines 123-140), the catchall aside
UnknownKeysPolicy(isOutput, resolved) ==
  IF isOutput THEN "passthrough"
  ELSE IF ApTruthy(resolved)
    THEN IF resolved.additionalProperties = ApTrue THEN "passthrough" ELSE "catchall"
  ELSE "strict"

\* the string branch (lines 153-165)
StringExpression(resolved, isOutput) ==
  IF HasEnum(resolved) THEN
    LET stringValues == SelectSeq(resolved.enum, IsStringValue)
        literals == [i \in 1..Len(resolved.enum) |-> literalExpression(resolved.enum[i])]
    IN  IF isOutput THEN ZString
        ELSE IF Len(stringValues) = Len(resolved.enum)
          THEN ZEnum([i \in 1..Len(stringValues) |-> stringValues[i].s])
        ELSE IF Len(literals) = 1 THEN literals[1] ELSE ZUnion(literals)
  ELSE ZString

\* the untyped enum branch (lines 170-172); z.any() when there is no enum
UntypedExpression(resolved, isOutput) ==
  IF HasEnum(resolved) THEN
    IF isOutput THEN ZAny
    ELSE ZUnion([i \in 1..Len(resolved.enum) |-> literalExpression(resolved.enum[i])])
  ELSE ZAny

\* descriptionParts (lines 178-184)
DescriptionParts(resolved) ==
  (IF Has(resolved, "description")
     THEN << [part |-> "description", text |-> resolved.description] >> ELSE <<>>)
  \o
  (IF Has(resolved, "example")
     THEN << [part |-> "example", json |-> resolved.example] >> ELSE <<>>)

\* lines 174-187: .nullable() and .describe() around the compiled expression
Decorate(expression, resolved) ==
  LET e1 == IF Has(resolved, "nullable") /\ resolved.nullable
              THEN ZNullable(expression) ELSE expression
      parts == DescriptionParts(resolved)
  IN  IF Len(parts) > 0 THEN ZDescribe(e1, parts) ELSE e1

SetMax(S) == CHOOSE m \in S : \A x \in S : x <= m

\* lines 121-140, child and catchall being the compiled properties and the
\* compiled additionalProperties schema
ObjectExpression(resolved, isOutput, properties, child, catchall, dmaxd) ==
  ZodResult(
    Decorate(
      ZObject([key \in DOMAIN properties |->
                 PropertyWrap(child[key].expr, key \in RequiredSet(resolved), isOutput)],
              UnknownKeysPolicy(isOutput, resolved), catchall.expr),
      resolved),
    catchall.thrown \/ \E key \in DOMAIN properties : child[key].thrown,
    SetMax({dmaxd, catchall.maxd} \cup { child[key].maxd : key \in DOMAIN properties }))

\* lines 141-151, item being the compiled items schema
ArrayExpression(resolved, item, dmaxd) ==
  ZodResult(Decorate(ZArray(item.expr), resolved), item.thrown, Max2(dmaxd, item.maxd))

\* resolved.properties ?? {}
PropertiesOf(resolved) ==
  IF Has(resolved, "properties") THEN resolved.properties ELSE Empty

RECURSIVE schemaToZodExpression(_, _, _, _, _)

\* lines 88-189, d being what derefSchema returned for the node; every child is
\* compiled with new Set(seenRefs): a copy of the set as derefSchema left it
CompileResolved(doc, d, mode, depth) ==
  IF d.thrown THEN ZodResult(ZAny, TRUE, d.maxd)
  ELSE IF DepthExceeded(depth) THEN ZodResult(ZAny, FALSE, d.maxd)
  ELSE IF Has(d.val, "oneOf") \/ Has(d.val, "anyOf")
    THEN ZodResult(ZAny, FALSE, d.maxd)
  ELSE IF IsObjectShape(d.val) THEN
    ObjectExpression(
      d.val, mode = "output", PropertiesOf(d.val),
      [key \in DOMAIN PropertiesOf(d.val) |->
         schemaToZodExpression(doc, PropertiesOf(d.val)[key], mode, depth + 1, d.seen)],
      IF UnknownKeysPolicy(mode = "output", d.val) = "catchall"
        THEN schemaToZodExpression(doc, d.val.additionalProperties, mode,
                                   depth + 1, d.seen)
        ELSE ZodResult(ZAny, FALSE, depth),
      d.maxd)
  ELSE IF TypeOf(d.val) = "array" THEN
    ArrayExpression(
      d.val,
      IF Has(d.val, "items") /\ ~Has(d.val.items, "null")
        THEN schemaToZodExpression(doc, d.val.items, mode, depth + 1, d.seen)
        ELSE ZodResult(ZAny, FALSE, depth),
      d.maxd)
  ELSE IF TypeOf(d.val) = "string" THEN
    ZodResult(Decorate(StringExpression(d.val, mode = "output"), d.val), FALSE, d.maxd)
  ELSE IF TypeOf(d.val) \in {"integer", "number"} THEN
    ZodResult(Decorate(ZNumber, d.val), FALSE, d.maxd)
  ELSE IF TypeOf(d.val) = "boolean" THEN
    ZodResult(Decorate(ZBoolean, d.val), FALSE, d.maxd)
  ELSE ZodResult(Decorate(UntypedExpression(d.val, mode = "output"), d.val),
                 FALSE, d.maxd)

schemaToZodExpression(doc, schema, mode, depth, seenRefs) ==
  CompileResolved(doc, derefSchema(doc, schema, seenRefs, depth), mode, depth)

\* --------------------------------------------- input and output validators
\* operation?.requestBody?.content?.["application/json"]?.schema is the field
\* requestSchema; responses["200"|"201"].content["application/json"].schema are
\* the fields response200 and response201.
EmptyStrictObject == ZObject(Empty, "strict", ZAny)

\* a set of references carried over from the operations compiled before
SetKeptAcrossOperations ==
  IF tools = <<>> THEN {} ELSE { <<"#", "components", "schemas", "B">> }

\* new Set(): the visited-reference set every resolution of a request or
\* response schema starts from (lines 200, 205, 213, 228, 237, 247)
NewSet == {}

\* lines 200-215, d being the resolved request schema
InputOfResolved(d, z) ==
  IF d.thrown THEN ZodResult(ZAny, TRUE, d.maxd)
  ELSE IF IsObjectShape(d.val)
    THEN ZodResult(z.expr, z.thrown, Max2(d.maxd, z.maxd))
    ELSE ZodResult(ZObject([payload |-> z.expr], "strict", ZAny), z.thrown,
                   Max2(d.maxd, z.maxd))

InputOfRequest(doc, d) ==
  InputOfResolved(d, schemaToZodExpression(doc, d.val, "input", 0, NewSet))

buildInputSchemaExpression(doc, operation) ==
  IF ~Has(operation, "requestSchema") THEN ZodResult(EmptyStrictObject, FALSE, 0)
  ELSE InputOfRequest(doc, derefSchema(doc, operation.requestSchema, NewSet, 0))

\* outputSchema: null
NoOutputSchema == [k |-> "null"]

\* a choice that looks at the 201 response first
ResponseSchemaPrefers201(operation) ==
  IF Has(operation, "response201") THEN operation.response201
  ELSE IF Has(operation, "response200") THEN operation.response200
  ELSE Null

\* responses["200"] schema || responses["201"] schema
ResponseSchemaOf(operation) ==
  IF Has(operation, "response200") THEN operation.response200
  ELSE IF Has(operation, "response201") THEN operation.response201
  ELSE Null

\* lines 229-237, d being the resolved response schema
OutputOfResolved(doc, responseSchema, d) ==
  IF d.thrown THEN ZodResult(ZAny, TRUE, d.maxd)
  ELSE IF ~IsObjectShape(d.val) THEN ZodResult(NoOutputSchema, FALSE, d.maxd)
  ELSE schemaToZodExpression(doc, responseSchema, "output", 0, NewSet)

OutputOfResponse(doc, responseSchema) ==
  IF Has(responseSchema, "null") THEN ZodResult(NoOutputSchema, FALSE, 0)
  ELSE OutputOfResolved(doc, responseSchema, derefSchema(doc, responseSchema, NewSet, 0))

buildOutputSchemaExpression(doc, operation) ==
  OutputOfResponse(doc, ResponseSchemaOf(operation))

\* "limit" in properties || "offset" in properties, d being the resolved request schema
PaginationOfResolved(d) ==
  [thrown |-> d.thrown,
   value |-> ~d.thrown /\ (Has(PropertiesOf(d.val), "limit")
                           \/ Has(PropertiesOf(d.val), "offset"))]

\* [thrown, value]: whether the resolved request schema has a limit or offset property
hasPagination(doc, operation) ==
  IF ~Has(operation, "requestSchema") THEN [thrown |-> FALSE, value |-> FALSE]
  ELSE PaginationOfResolved(derefSchema(doc, operation.requestSchema, NewSet, 0))

\* ------------------------------------------------------------ generateTools
\* const methods = ["post", "get", "put", "patch", "delete"]
Methods == <<"post", "get", "put", "patch", "delete">>

\* the operations of one path item, in the order of Methods
RECURSIVE PathOperations(_, _)
PathOperations(path, m) ==
  IF m > Len(Methods) THEN <<>>
  ELSE (IF Has(path.item, Methods[m])
          THEN << [pathKey |-> path.key, method |-> Methods[m],
                   operation |-> path.item[Methods[m]]] >>
          ELSE <<>>)
       \o PathOperations(path, m + 1)

\* the iterations of the two nested loops of generateTools, in order;
\* doc.paths is the sequence of Object.entries(spec.paths)
RECURSIVE OperationsFrom(_, _)
OperationsFrom(doc, p) ==
  IF p > Len(doc.paths) THEN <<>>
  ELSE PathOperations(doc.paths[p], 1) \o OperationsFrom(doc, p + 1)

Operations(doc) == OperationsFrom(doc, 1)

\* tools.push({...}) (lines 285-298)
ToolOf(entry, inputSchema, outputSchema, pagination) ==
  [thrown |-> inputSchema.thrown \/ outputSchema.thrown \/ pagination.thrown,
   tool |-> [name |-> ToolName(entry.operation, entry.pathKey),
             methodName |-> MethodName(entry.pathKey),
             inputSchema |-> inputSchema.expr,
             outputSchema |-> outputSchema.expr,
             pagination |-> pagination.value,
             annotations |-> Annotations(OperationId(entry.operation, entry.pathKey))]]

\* one iteration of the loop body (lines 269-298): [thrown, tool]
BuildTool(doc, entry) ==
  ToolOf(entry,
         buildInputSchemaExpression(doc, entry.operation),
         buildOutputSchemaExpression(doc, entry.operation),
         hasPagination(doc, entry.operation))

\* ======================================================================
\* The documents the generator is run on.
\* ======================================================================
Str == [type |-> "string"]

Num == [type |-> "number"]

\* a chain of references C1 -> C2 -> ... -> C10 -> string, longer than the depth bound
Chain == <<"C1", "C2", "C3", "C4", "C5", "C6", "C7", "C8", "C9", "C10">>

ChainSchemas ==
  [n \in { Chain[i] : i \in 1..Len(Chain) } |->
     LET i == CHOOSE j \in 1..Len(Chain) : Chain[j] = n
     IN  IF i < Len(Chain) THEN SchemaRef(Chain[i + 1]) ELSE Str]

\* components.schemas: plain objects, the cyclic shapes (through a property, an
\* array item, an allOf branch, a self reference, a mutual reference), an object
\* with a dangling reference inside, and the chain
Components ==
  [ B  |-> [type |-> "object", properties |-> [a |-> Str, b |-> Num],
            required |-> <<"a">>],
    X  |-> [type |-> "object", properties |-> [a |-> Num]],
    A  |-> [type |-> "object", properties |-> [x |-> Str, self |-> SchemaRef("A")]],
    S  |-> SchemaRef("S"),
    M1 |-> SchemaRef("M2"),
    M2 |-> SchemaRef("M1"),
    L  |-> [type |-> "array", items |-> SchemaRef("L")],
    T  |-> [allOf |-> << SchemaRef("T"),
                         [type |-> "object", properties |-> [t |-> Str]] >>],
    D  |-> [type |-> "object", properties |-> [d |-> SchemaRef("Missing")]]
  ] @@ ChainSchemas

\* "$ref": "other.yml#/A" does not start with "#/"
ExternalRef == [ref |-> <<"other.yml#", "A">>]

\* the places a node can sit in a schema
Placements == {"top", "property", "item", "allOf", "oneOf", "anyOf", "additional",
               "deep", "propertyOneOf"}

Place(where, node) ==
  CASE where = "top" -> node
    [] where = "property" -> [type |-> "object", properties |-> [p |-> node]]
    [] where = "item" -> [type |-> "array", items |-> node]
    [] where = "allOf" ->
         [allOf |-> << [type |-> "object", properties |-> [q |-> Str]], node >>]
    [] where = "oneOf" -> [oneOf |-> <<node, Str>>]
    [] where = "anyOf" -> [anyOf |-> <<node, Str>>]
    [] where = "additional" -> [type |-> "object", additionalProperties |-> node]
    [] where = "deep" ->
         [type |-> "object", properties |->
            [p |-> [type |-> "array", items |->
               [type |-> "object", properties |-> [r |-> node]]]]]
    [] where = "propertyOneOf" ->
         [type |-> "object", properties |-> [p |-> [oneOf |-> <<node, Str>>]]]

PlacedNodes == {SchemaRef("B"), SchemaRef("Missing"), ExternalRef, SchemaRef("D")}

PlacedSchemas == { Place(w, n) : w \in Placements, n \in PlacedNodes }

IdAB == <<"a", "B">>

IdA_B == <<"a", "_", "b">>

\* the operation of POST /a.b: with or without identifier, with or without request
PostOperations ==
  { id @@ req :
      id \in {Empty, [operationId |-> IdAB]},
      req \in {Empty} \cup { [requestSchema |-> r] : r \in PlacedSchemas } }

\* the operation of GET /a.b: a 200 response, a 201 response, or a resolvable
\* 200 response beside a 201 one
GetOperations ==
  { [response200 |-> r] : r \in PlacedSchemas }
  \cup { [response201 |-> Place(w, SchemaRef("Missing"))] : w \in {"top", "property"} }
  \cup { [response200 |-> SchemaRef("B"), response201 |-> SchemaRef("Missing")] }

\* the operation of POST /x
OtherOperations ==
  { id @@ req :
      id \in {Empty, [operationId |-> IdA_B]},
      req \in {Empty, [requestSchema |-> Place("property", SchemaRef("Missing"))]} }

PathAB == <<"/", "a", ".", "b">>

PathX == <<"/", "x">>

Docs ==
  { [paths |-> << [key |-> PathAB, item |-> post @@ get],
                  [key |-> PathX, item |-> other] >>,
     components |-> [schemas |-> Components]] :
      post \in {Empty} \cup { [post |-> o] : o \in PostOperations },
      get \in {Empty} \cup { [get |-> o] : o \in GetOperations },
      other \in {Empty} \cup { [post |-> o] : o \in OtherOperations } }

\* ======================================================================
\* main(): the generation run, one loop iteration of generateTools per step.
\* ======================================================================
NotWritten == [written |-> FALSE, tools |-> <<>>]

\* the state after loadSpec: generateTools is about to start
Init ==
  /\ pc = "generateTools"
  /\ spec \in Docs
  /\ opIndex = 1
  /\ tools = <<>>
  /\ artifact = NotWritten
  /\ requests = << >>
  /\ input = Empty
  /\ output = <<>>

\* writeOutput runs only after generateTools returned
WritesEvenAfterThrow ==
  \/ pc = "generateTools" /\ opIndex > Len(Operations(spec))
  \/ pc = "rejected"

CanWrite == pc = "generateTools" /\ opIndex > Len(Operations(spec))

\* one iteration of the loop that pushes a tool
GenerateTool ==
  /\ pc = "generateTools"
  /\ opIndex <= Len(Operations(spec))
  /\ ~BuildTool(spec, Operations(spec)[opIndex]).thrown
  /\ tools' = Append(tools, BuildTool(spec, Operations(spec)[opIndex]).tool)
  /\ opIndex' = opIndex + 1
  /\ UNCHANGED <<pc, spec, artifact, input, output, requests>>

\* one iteration in which resolveRef throws: generateTools unwinds, main() rejects
GenerateThrows ==
  /\ pc = "generateTools"
  /\ opIndex <= Len(Operations(spec))
  /\ BuildTool(spec, Operations(spec)[opIndex]).thrown
  /\ pc' = "rejected"
  /\ UNCHANGED <<spec, opIndex, tools, artifact, input, output, requests>>

\* await writeOutput(tools)
WriteOutput ==
  /\ CanWrite
  /\ artifact' = [written |-> TRUE, tools |-> tools]
  /\ pc' = "done"
  /\ UNCHANGED <<spec, opIndex, tools, input, output, requests>>

\* main().catch: console.error(error); process.exit(1)
ExitOnError ==
  /\ pc = "rejected"
  /\ pc' = "exited"
  /\ UNCHANGED <<spec, opIndex, tools, artifact, input, output, requests>>

Next == GenerateTool \/ GenerateThrows \/ WriteOutput \/ ExitOnError

Spec == Init /\ [][Next]_vars

\* ---------------------------------------------------------------- C1
\* C1: the tool definitions generateTools produces have pairwise distinct names.
C1_UniqueNames ==
  \A i, j \in 1..Len(tools) : i # j => tools[i].name # tools[j].name

\* ---------------------------------------------------------------- C2
OperationThrows(i) == BuildTool(spec, Operations(spec)[i]).thrown

\* C2: when reference lookup fails while an operation is compiled the run ends
\* in an error state and the artifact is never written, the tools of the
\* operations processed before the failing one included: the run goes on only
\* past operations whose lookups succeeded, it is rejected without an artifact,
\* and an artifact, once written, holds one tool per operation of the document.
C2_NoPartialArtifact ==
  /\ pc \in {"rejected", "exited"} =>
       /\ artifact = NotWritten
       /\ opIndex <= Len(Operations(spec))
       /\ OperationThrows(opIndex)
  /\ pc \in {"generateTools", "done"} =>
       \A i \in 1..(opIndex - 1) : ~OperationThrows(i)
  /\ artifact.written =>
       /\ pc = "done"
       /\ Len(artifact.tools) = Len(Operations(spec))
       /\ \A i \in 1..Len(Operations(spec)) : ~OperationThrows(i)

\* a run that failed on an operation after it had built a tool for an earlier one
C2_Witness ==
  /\ pc = "exited"
  /\ Len(tools) >= 1
  /\ artifact = NotWritten
  /\ OperationThrows(opIndex)

\* ---------------------------------------------------------------- C3
\* the pointer of a reference node cannot be looked up in the document
LookupFails(doc, ref) ==
  ~StartsWithHashSlash(ref) \/ ~WalkPointer(doc, Tail(ref)).found

TargetOf(doc, ref) == WalkPointer(doc, Tail(ref)).value

Branches(node, key) == { node[key][i] : i \in 1..Len(node[key]) }

\* a reference node that cannot be looked up sits anywhere in the inline schema:
\* property, additionalProperties, array item, allOf, oneOf or anyOf branch
RECURSIVE FailingRefAnywhere(_, _)
FailingRefAnywhere(doc, node) ==
  IF Has(node, "null") \/ Has(node, "bool") THEN FALSE
  ELSE \/ Has(node, "ref") /\ LookupFails(doc, node.ref)
       \/ \E key \in {"allOf", "oneOf", "anyOf"} :
            Has(node, key) /\ \E b \in Branches(node, key) : FailingRefAnywhere(doc, b)
       \/ Has(node, "properties")
            /\ \E key \in DOMAIN node.properties :
                 FailingRefAnywhere(doc, node.properties[key])
       \/ Has(node, "items") /\ FailingRefAnywhere(doc, node.items)
       \/ Has(node, "additionalProperties")
            /\ FailingRefAnywhere(doc, node.additionalProperties)

\* a reference node that cannot be looked up is the node itself, the end of a
\* chain of resolvable references from it, or a direct allOf branch of either,
\* at most n steps away
RECURSIVE FailingRefOnTop(_, _, _)
FailingRefOnTop(doc, node, n) ==
  IF n < 0 \/ Has(node, "null") THEN FALSE
  ELSE IF Has(node, "ref") THEN
    LookupFails(doc, node.ref) \/ FailingRefOnTop(doc, TargetOf(doc, node.ref), n - 1)
  ELSE IF Has(node, "allOf") THEN
    \E b \in Branches(node, "allOf") :
      (Has(b, "ref") \/ Has(b, "allOf")) /\ FailingRefOnTop(doc, b, n - 1)
  ELSE FALSE

\* ... or, besides, a property value, an array item or (input mode) the
\* additionalProperties schema of a plain object or array node, at most n steps away
RECURSIVE FailingRefReached(_, _, _, _)
FailingRefReached(doc, node, mode, n) ==
  IF n < 0 \/ Has(node, "null") THEN FALSE
  ELSE IF Has(node, "ref") THEN
    LookupFails(doc, node.ref)
      \/ FailingRefReached(doc, TargetOf(doc, node.ref), mode, n - 1)
  ELSE IF Has(node, "allOf") THEN
    \E b \in Branches(node, "allOf") :
      (Has(b, "ref") \/ Has(b, "allOf")) /\ FailingRefOnTop(doc, b, n - 1)
  ELSE IF Has(node, "oneOf") \/ Has(node, "anyOf") THEN FALSE
  ELSE IF IsObjectShape(node) THEN
    \/ Has(node, "properties")
         /\ \E key \in DOMAIN node.properties :
              FailingRefReached(doc, node.properties[key], mode, n - 1)
    \/ /\ mode = "input"
       /\ Has(node, "additionalProperties")
       /\ ~Has(node.additionalProperties, "bool")
       /\ FailingRefReached(doc, node.additionalProperties, mode, n - 1)
  ELSE IF TypeOf(node) = "array" THEN
    Has(node, "items") /\ FailingRefReached(doc, node.items, mode, n - 1)
  ELSE FALSE

\* the node resolves to an object shape through at most n references
RECURSIVE ResolvesToObject(_, _, _)
ResolvesToObject(doc, node, n) ==
  IF n < 0 \/ Has(node, "null") THEN FALSE
  ELSE IF Has(node, "ref") THEN
    ~LookupFails(doc, node.ref) /\ ResolvesToObject(doc, TargetOf(doc, node.ref), n - 1)
  ELSE IF Has(node, "allOf") THEN TRUE
  ELSE IsObjectShape(node)

\* a failing reference outside every oneOf/anyOf, found by following resolvable
\* references, allOf branches, properties, items and additionalProperties
RECURSIVE FailingRefOutsideUnions(_, _, _)
FailingRefOutsideUnions(doc, node, n) ==
  IF n < 0 \/ Has(node, "null") \/ Has(node, "bool") THEN FALSE
  ELSE IF Has(node, "ref") THEN
    LookupFails(doc, node.ref)
      \/ FailingRefOutsideUnions(doc, TargetOf(doc, node.ref), n - 1)
  ELSE IF Has(node, "allOf") THEN
    \E b \in Branches(node, "allOf") : FailingRefOutsideUnions(doc, b, n - 1)
  ELSE IF Has(node, "oneOf") \/ Has(node, "anyOf") THEN FALSE
  ELSE
    \/ Has(node, "properties")
         /\ \E key \in DOMAIN node.properties :
              FailingRefOutsideUnions(doc, node.properties[key], n - 1)
    \/ Has(node, "items") /\ FailingRefOutsideUnions(doc, node.items, n - 1)
    \/ Has(node, "additionalProperties")
         /\ FailingRefOutsideUnions(doc, node.additionalProperties, n - 1)

RequestOf(operation) ==
  IF Has(operation, "requestSchema") THEN operation.requestSchema ELSE Null

\* C3 as stated: every reference node anywhere inside the request schema or the
\* selected response schema whose pointer cannot be looked up aborts the run, so
\* no tool is ever built from an operation that holds one.
C3_AsClaimed ==
  \A i \in 1..Len(tools) :
    /\ ~FailingRefAnywhere(spec, RequestOf(Operations(spec)[i].operation))
    /\ ~FailingRefAnywhere(spec, ResponseSchemaOf(Operations(spec)[i].operation))

\* C3 amended: a reference node whose pointer cannot be looked up aborts the
\* run when it is the request or selected response schema itself, the end of a
\* chain of resolvable references from it, or a direct allOf branch of either; or
\* when, within the depth bound 8, it is a property value, an array item or (in
\* the request) the additionalProperties schema of a plain object or array node,
\* for a response only if the response resolves to an object shape.  A run
\* aborts only for a failing reference that lies outside every oneOf/anyOf
\* composition: a reference inside a oneOf/anyOf branch is never looked up.
C3_ReachedReferenceIsFatal ==
  /\ \A i \in 1..Len(tools) :
       LET op == Operations(spec)[i].operation
       IN  /\ ~FailingRefReached(spec, RequestOf(op), "input", MAX_SCHEMA_DEPTH)
           /\ ~FailingRefOnTop(spec, ResponseSchemaOf(op), MAX_SCHEMA_DEPTH)
           /\ ~(/\ ResolvesToObject(spec, ResponseSchemaOf(op), MAX_SCHEMA_DEPTH)
                /\ FailingRefReached(spec, ResponseSchemaOf(op), "output",
                                     MAX_SCHEMA_DEPTH))
  /\ pc \in {"rejected", "exited"} =>
       LET op == Operations(spec)[opIndex].operation
       IN  \/ FailingRefOutsideUnions(spec, RequestOf(op), 3 * MAX_SCHEMA_DEPTH)
           \/ FailingRefOutsideUnions(spec, ResponseSchemaOf(op), 3 * MAX_SCHEMA_DEPTH)

\* a run aborted by a dangling reference three levels down (a property of an
\* array item of a property of the request schema)
C3_Witness ==
  /\ pc = "rejected"
  /\ Has(Operations(spec)[opIndex].operation, "requestSchema")
  /\ Operations(spec)[opIndex].operation.requestSchema
       = Place("deep", SchemaRef("Missing"))

\* ---------------------------------------------------------------- C17
\* the document with every operation but this one removed
DocumentWithOnly(doc, entry) ==
  [paths |-> << [key |-> entry.pathKey,
                 item |-> [m \in {entry.method} |-> entry.operation]] >>,
   components |-> doc.components]

\* the input validator of an operation resolved and compiled from the empty
\* visited-reference set
InputFromEmptySet(doc, operation) ==
  IF ~Has(operation, "requestSchema") THEN ZObject(Empty, "strict", ZAny)
  ELSE IF IsObjectShape(derefSchema(doc, operation.requestSchema, {}, 0).val)
    THEN schemaToZodExpression(
           doc, derefSchema(doc, operation.requestSchema, {}, 0).val, "input", 0, {}).expr
  ELSE ZObject(
         [payload |-> schemaToZodExpression(
                        doc, derefSchema(doc, operation.requestSchema, {}, 0).val,
                        "input", 0, {}).expr],
         "strict", ZAny)

\* the output validator of an operation resolved and compiled from the empty
\* visited-reference set
OutputFromEmptySet(doc, operation) ==
  IF ~Has(operation, "response200") /\ ~Has(operation, "response201")
    THEN [k |-> "null"]
  ELSE IF ~IsObjectShape(
            derefSchema(doc, IF Has(operation, "response200")
                               THEN operation.response200
                               ELSE operation.response201, {}, 0).val)
    THEN [k |-> "null"]
  ELSE schemaToZodExpression(doc, IF Has(operation, "response200")
                                    THEN operation.response200
                                    ELSE operation.response201, "output", 0, {}).expr

ToolsAreIndependent ==
  \A i \in 1..Len(tools) :
    /\ Operations(DocumentWithOnly(spec, Operations(spec)[i]))
         = << Operations(spec)[i] >>
    /\ tools[i].inputSchema
         = InputFromEmptySet(DocumentWithOnly(spec, Operations(spec)[i]),
                             Operations(spec)[i].operation)
    /\ tools[i].outputSchema
         = OutputFromEmptySet(DocumentWithOnly(spec, Operations(spec)[i]),
                              Operations(spec)[i].operation)
    /\ tools[i].name = ToolName(Operations(spec)[i].operation,
                                Operations(spec)[i].pathKey)
    /\ \A j \in 1..Len(tools) :
         Operations(spec)[j] = Operations(spec)[i] => tools[j] = tools[i]

\* C17: compiling one operation shares no mutable state with compiling another:
\* every resolution of a request or response schema starts from an empty
\* visited-reference set, resolving, merging and compiling leave the loaded
\* document as it was, and so the tool of an operation is the one that operation
\* gives in a document of its own, whatever operations were processed before it.
C17_OperationsIndependent == [] ToolsAreIndependent /\ [][spec' = spec]_vars

\* a reference resolved for the request of one operation is resolved again for
\* the response of the next one
C17_Witness ==
  /\ Len(tools) = 2
  /\ Has(Operations(spec)[1].operation, "requestSchema")
  /\ Operations(spec)[1].operation.requestSchema = SchemaRef("B")
  /\ Has(Operations(spec)[2].operation, "response200")
  /\ Operations(spec)[2].operation.response200 = SchemaRef("B")
  /\ tools[2].outputSchema # NoOutputSchema

\* ======================================================================
\* Resolution and compilation of one schema as a state machine.
\* ======================================================================
Bool == [type |-> "boolean"]

Untyped == Empty

IdObject == [type |-> "object", properties |-> [id |-> Str], required |-> <<"id">>]

\* objects nested n levels deep through a property
RECURSIVE NestedObject(_)
NestedObject(n) ==
  IF n = 0 THEN Str
  ELSE [type |-> "object", properties |-> [p |-> NestedObject(n - 1)]]

\* allOf compositions nested n levels deep
RECURSIVE NestedAllOf(_)
NestedAllOf(n) ==
  IF n = 0 THEN [type |-> "object", properties |-> [p |-> Str]]
  ELSE [allOf |-> << NestedAllOf(n - 1) >>]

\* references into the components: the cycles and every entry point of the chain
CyclicAndDeepSchemas ==
  { SchemaRef(n) : n \in {"A", "S", "M1", "L", "T"} }
  \cup { SchemaRef(Chain[i]) : i \in 1..Len(Chain) }
  \cup { NestedObject(n) : n \in 0..MaxNest }
  \cup { NestedAllOf(n) : n \in 0..MaxNest }
  \cup { Place(w, SchemaRef(n)) : w \in {"property", "item", "allOf"},
                                  n \in {"A", "S", "M1", "T", "C1", "C2"} }

RECURSIVE SeqsUpTo(_, _)
SeqsUpTo(S, n) ==
  IF n = 0 THEN { <<>> }
  ELSE LET shorter == SeqsUpTo(S, n - 1)
       IN  shorter \cup { Append(q, x) : q \in { t \in shorter : Len(t) = n - 1 },
                                         x \in S }

BranchPool ==
  { SchemaRef("B"), SchemaRef("X"),
    [type |-> "object", properties |-> [a |-> Bool, c |-> Str], required |-> <<"c">>],
    [type |-> "object", properties |-> [p |-> SchemaRef("B")]],
    SchemaRef("A"), Str }

AllOfSchemas == { [allOf |-> bs] : bs \in SeqsUpTo(BranchPool, MaxBranches) }

EnumValues == { JStr("a"), JStr("b"), JNum(1) }

EnumSchemas ==
  { ty @@ [enum |-> e] @@ nl :
      ty \in {Empty, Str},
      e \in SeqsUpTo(EnumValues, MaxEnumLen),
      nl \in {Empty, [nullable |-> TRUE]} }

Leaves ==
  { Str, Num, Bool, Untyped, SchemaRef("B"), IdObject,
    [type |-> "string", nullable |-> TRUE],
    [type |-> "string", enum |-> <<JStr("a"), JStr("b")>>],
    [enum |-> <<JStr("a"), JNum(1)>>],
    [type |-> "array", items |-> IdObject],
    [type |-> "array"],
    [oneOf |-> <<Str, Num>>] }

ObjectSchemas ==
  { [type |-> "object"] @@ props @@ req @@ ap :
      props \in { [properties |-> p @@ q] :
                    p \in {Empty} \cup { [p |-> l] : l \in Leaves },
                    q \in {Empty} \cup { [q |-> l] : l \in Leaves } },
      req \in { Empty, [required |-> <<"p">>], [required |-> <<"p", "q">>],
                [required |-> <<"z">>] },
      ap \in { Empty, [additionalProperties |-> ApTrue],
               [additionalProperties |-> ApFalse],
               [additionalProperties |-> Str],
               [additionalProperties |-> IdObject] } }

OtherSchemas ==
  { IdObject, [properties |-> [id |-> Str]], [type |-> "object"],
    [type |-> "object", description |-> "d", example |-> JNum(1)],
    SchemaRef("Missing"), Place("property", SchemaRef("Missing")) }
  \cup { Place(w, n) : w \in {"item", "deep", "property"},
                       n \in {IdObject, SchemaRef("B"), [type |-> "object"]} }

\* nodes of every kind carrying a description, an example or both, at the top
\* and as a property that is not required
DocumentedKinds ==
  { Str, Num, [type |-> "string", nullable |-> TRUE],
    [type |-> "object", properties |-> [id |-> Str]],
    [type |-> "array", items |-> Str],
    [type |-> "string", enum |-> <<JStr("a"), JStr("b")>>],
    Empty, SchemaRef("B"), SchemaRef("S"),
    [allOf |-> << SchemaRef("B") >>],
    [oneOf |-> <<Str, Num>>], [anyOf |-> <<Str, Num>>] }

Documentation ==
  { [description |-> "d"], [example |-> JStr("x")],
    [description |-> "d", example |-> JNum(1)] }

DocumentedSchemas ==
  { kind @@ doc : kind \in DocumentedKinds, doc \in Documentation }
  \cup { Place("property", kind @@ doc) : kind \in DocumentedKinds,
                                          doc \in Documentation }

\* compositions with a branch the compiler does not look into
DegradedSchemas ==
  { [allOf |-> << IdObject,
                  [oneOf |-> << [type |-> "object", properties |-> [p |-> Str],
                                 required |-> <<"p">>],
                                [type |-> "object", properties |-> [q |-> Str],
                                 required |-> <<"q">>] >>] >>],
    [allOf |-> << [anyOf |-> << [type |-> "object", properties |-> [p |-> Str]],
                               Str >>] >>],
    [type |-> "object", properties |-> [p |-> [oneOf |-> <<Str, Num>>]],
     required |-> <<"p">>],
    [allOf |-> << SchemaRef("B"), [type |-> "object",
                                   properties |-> [p |-> SchemaRef("B")]] >>] }

CompileInputs ==
  CyclicAndDeepSchemas \cup AllOfSchemas \cup EnumSchemas \cup ObjectSchemas
    \cup OtherSchemas \cup DocumentedSchemas \cup DegradedSchemas

CompileDoc == [paths |-> <<>>, components |-> [schemas |-> Components]]

InitCompile ==
  /\ pc = "ready"
  /\ spec = CompileDoc
  /\ input \in CompileInputs
  /\ output = <<>>
  /\ opIndex = 1
  /\ tools = <<>>
  /\ artifact = NotWritten
  /\ requests = << >>

\* derefSchema(spec, schema, new Set(), 0)
Resolve ==
  /\ pc = "ready"
  /\ output' = derefSchema(spec, input, {}, 0)
  /\ pc' = "resolved"
  /\ UNCHANGED <<spec, opIndex, tools, artifact, input, requests>>

\* schemaToZodExpression(spec, schema, { mode: "input" }, 0, new Set())
CompileAsInput ==
  /\ pc = "ready"
  /\ output' = schemaToZodExpression(spec, input, "input", 0, {})
  /\ pc' = "compiledInput"
  /\ UNCHANGED <<spec, opIndex, tools, artifact, input, requests>>

\* schemaToZodExpression(spec, schema, { mode: "output" }, 0, new Set())
CompileAsOutput ==
  /\ pc = "ready"
  /\ output' = schemaToZodExpression(spec, input, "output", 0, {})
  /\ pc' = "compiledOutput"
  /\ UNCHANGED <<spec, opIndex, tools, artifact, input, requests>>

NextCompile == Resolve \/ CompileAsInput \/ CompileAsOutput

SpecCompile == InitCompile /\ [][NextCompile]_vars

\* ---------------------------------------------------------------- C4
IsResult == pc \in {"resolved", "compiledInput", "compiledOutput"}

\* C4: on every schema, cyclic ones included, resolution and compilation end;
\* no call receives a depth argument above MAX_SCHEMA_DEPTH + 1; no cycle makes
\* the run throw; a schema that is directly a reference to itself resolves to
\* the empty schema and compiles to permissive-any.
C4_BoundedResolution ==
  IsResult =>
    /\ output.maxd <= MAX_SCHEMA_DEPTH + 1
    /\ input \in CyclicAndDeepSchemas => ~output.thrown
    /\ (Has(input, "ref") /\ ~LookupFails(spec, input.ref)
          /\ TargetOf(spec, input.ref) = input) =>
         /\ pc = "resolved" => output.val = Empty
         /\ pc # "resolved" => output.expr = ZAny

\* the compilation of objects nested deeper than the bound reached depth 9
C4_Witness ==
  /\ pc = "compiledInput"
  /\ input = NestedObject(MaxNest)
  /\ output.maxd = MAX_SCHEMA_DEPTH + 1

\* ---------------------------------------------------------------- C5
\* the visited set the loop of mergeAllOfSchemas hands to branch i of a
\* top-level allOf
RECURSIVE SeenBeforeBranch(_, _, _)
SeenBeforeBranch(doc, branches, i) ==
  IF i = 1 THEN {}
  ELSE BranchSeen(SeenBeforeBranch(doc, branches, i - 1),
                  derefSchema(doc, branches[i - 1],
                              SeenBeforeBranch(doc, branches, i - 1), 1).seen)

\* the properties of branch i resolved on its own path, the root being an allOf
OwnProperties(doc, branches, i) ==
  PropertiesOf(derefSchema(doc, branches[i], {}, 1).val)

\* the last branch that declares the property
OwnerOf(doc, branches, key) ==
  CHOOSE i \in 1..Len(branches) :
    /\ key \in DOMAIN OwnProperties(doc, branches, i)
    /\ \A j \in (i + 1)..Len(branches) : key \notin DOMAIN OwnProperties(doc, branches, j)

RECURSIVE Unwrapped(_)
Unwrapped(e) == IF e.k \in {"optional", "nullable"} THEN Unwrapped(e.inner) ELSE e

\* C5: cycle memory is per resolution path.  A branch of an allOf resolves as
\* it does with the references of its own path alone, whatever its sibling
\* branches resolved before it; and a property contributed by an inline branch
\* compiles as it does with no reference on its path, whatever references the
\* branches of the allOf resolved.
C5_PerPathMemory ==
  /\ (pc = "resolved" /\ Has(input, "allOf")) =>
       \A i \in 1..Len(input.allOf) :
         derefSchema(spec, input.allOf[i],
                     SeenBeforeBranch(spec, input.allOf, i), 1).val
           = derefSchema(spec, input.allOf[i], {}, 1).val
  /\ (pc \in {"compiledInput", "compiledOutput"} /\ Has(input, "allOf")
        /\ ~output.thrown) =>
       \A key \in DOMAIN output.expr.shape :
         LET i == OwnerOf(spec, input.allOf, key)
             mode == IF pc = "compiledInput" THEN "input" ELSE "output"
         IN  Has(input.allOf[i], "properties") =>
               Unwrapped(output.expr.shape[key])
                 = Unwrapped(schemaToZodExpression(
                               spec, input.allOf[i].properties[key], mode, 1, {}).expr)

\* ---------------------------------------------------------------- C6
\* the property maps of the branches from i on, each resolved on its own,
\* a later branch overriding an earlier one
RECURSIVE UnionOfBranches(_, _, _)
UnionOfBranches(doc, branches, i) ==
  IF i > Len(branches) THEN Empty
  ELSE UnionOfBranches(doc, branches, i + 1) @@ OwnProperties(doc, branches, i)

\* C6: resolving an allOf yields an object schema whose property map is the
\* union of the property maps of its resolved branches, the later-listed branch
\* winning on a shared name, for every list of branches, lists that repeat a
\* reference included.
C6_MergedIsUnion ==
  (pc = "resolved" /\ Has(input, "allOf") /\ ~output.thrown) =>
    /\ output.val.type = "object"
    /\ output.val.properties = UnionOfBranches(spec, input.allOf, 1)

\* ------------------------------------------------- what a validator accepts
\* JSON values handed to a validator; Undefined is an absent object key
JNull == [t |-> "null"]

Undefined == [t |-> "undefined"]

JObj(fields) == [t |-> "object", f |-> fields]

JArr(elements) == [t |-> "array", e |-> elements]

\* zod's parse of value v by the validator the expression spells
RECURSIVE Accepts(_, _)
Accepts(expr, v) ==
  CASE expr.k = "any" -> TRUE
    [] expr.k = "string" -> v.t = "string"
    [] expr.k = "number" -> v.t = "number"
    [] expr.k = "boolean" -> v.t = "boolean"
    [] expr.k = "enum" ->
         v.t = "string" /\ \E i \in 1..Len(expr.values) : expr.values[i] = v.s
    [] expr.k = "literal" -> v = expr.value
    [] expr.k = "union" -> \E i \in 1..Len(expr.options) : Accepts(expr.options[i], v)
    [] expr.k = "optional" -> v.t = "undefined" \/ Accepts(expr.inner, v)
    [] expr.k = "nullable" -> v.t = "null" \/ Accepts(expr.inner, v)
    [] expr.k = "describe" -> Accepts(expr.inner, v)
    [] expr.k = "array" ->
         v.t = "array" /\ \A i \in 1..Len(v.e) : Accepts(expr.item, v.e[i])
    [] expr.k = "object" ->
         /\ v.t = "object"
         /\ \A key \in DOMAIN expr.shape :
              Accepts(expr.shape[key],
                      IF key \in DOMAIN v.f THEN v.f[key] ELSE Undefined)
         /\ \A key \in DOMAIN v.f \ DOMAIN expr.shape :
              CASE expr.unknownKeys = "strict" -> FALSE
                [] expr.unknownKeys = "passthrough" -> TRUE
                [] expr.unknownKeys = "catchall" -> Accepts(expr.catchall, v.f[key])

\* v with an unknown field added to every object in it
RECURSIVE WithExtraFields(_)
WithExtraFields(v) ==
  IF v.t = "object"
    THEN JObj([extra |-> JNum(1)]
              @@ [key \in DOMAIN v.f |-> WithExtraFields(v.f[key])])
  ELSE IF v.t = "array"
    THEN JArr([i \in 1..Len(v.e) |-> WithExtraFields(v.e[i])])
  ELSE v

\* the object v with one more field
WithField(v, key, u) == JObj([k \in {key} |-> u] @@ v.f)

FieldValues ==
  { JStr("x"), JNum(1), JNull, JObj(Empty), JObj([id |-> JStr("x")]),
    JArr(<< JObj([id |-> JStr("x")]) >>),
    JObj([p |-> JArr(<< JObj([r |-> JObj([id |-> JStr("x")])]) >>)]) }

SampleValues ==
  { JObj(p @@ q) : p \in {Empty} \cup { [p |-> v] : v \in FieldValues },
                   q \in {Empty} \cup { [q |-> v] : v \in FieldValues } }
  \cup { JObj([id |-> JStr("x")]), JObj([id |-> JStr("x"), extra |-> JNum(1)]),
         JObj([z |-> JNum(1)]), JStr("x"), JArr(<< JObj([id |-> JStr("x")]) >>) }

\* the expression under the .nullable() and .describe() of its own node
RECURSIVE Core(_)
Core(e) == IF e.k \in {"nullable", "describe"} THEN Core(e.inner) ELSE e

IsPlainObject(schema) ==
  /\ IsObjectShape(schema)
  /\ \A key \in {"ref", "allOf", "oneOf", "anyOf", "null"} : ~Has(schema, key)

RECURSIVE LenientObjects(_)
LenientObjects(e) ==
  CASE e.k \in {"optional", "nullable", "describe"} -> LenientObjects(e.inner)
    [] e.k = "array" -> LenientObjects(e.item)
    [] e.k = "union" -> \A i \in 1..Len(e.options) : LenientObjects(e.options[i])
    [] e.k = "object" ->
         /\ e.unknownKeys = "passthrough"
         /\ \A key \in DOMAIN e.shape :
              /\ e.shape[key].k # "optional"
              /\ e.shape[key].k = "nullable" /\ e.shape[key].inner.k = "optional" =>
                   /\ Accepts(e.shape[key], Undefined)
                   /\ Accepts(e.shape[key], JNull)
              /\ LenientObjects(e.shape[key])
    [] OTHER -> TRUE

\* C8: under output mode every object validator at every nesting level tolerates
\* unknown properties, every property outside the required set accepts absence
\* and an explicit null, and adding an unknown field to any object of an
\* accepted response never turns it into a rejected one.
C8_OutputLenient ==
  (pc = "compiledOutput" /\ ~output.thrown) =>
    /\ LenientObjects(output.expr)
    /\ IsPlainObject(input) =>
         \A key \in DOMAIN PropertiesOf(input) :
           key \notin RequiredSet(input) =>
             /\ Core(output.expr).shape[key].k = "nullable"
             /\ Core(output.expr).shape[key].inner.k = "optional"
             /\ Core(output.expr).shape[key].inner.inner
                  = schemaToZodExpression(spec, PropertiesOf(input)[key],
                                          "output", 1, {}).expr
    /\ \A v \in SampleValues :
         Accepts(output.expr, v) => Accepts(output.expr, WithExtraFields(v))

\* an output validator with objects three levels down accepts a response with an
\* unknown field in every one of its objects
C8_Witness ==
  /\ pc = "compiledOutput"
  /\ input = Place("deep", IdObject)
  /\ Accepts(output.expr,
             WithExtraFields(
               JObj([p |-> JArr(<< JObj([r |-> JObj([id |-> JStr("x")])]) >>)])))

\* ---------------------------------------------------------------- C9
IsEnumNode(schema) ==
  /\ HasEnum(schema)
  /\ TypeOf(schema) \in {"string", "undefined"}
  /\ \A key \in {"ref", "allOf", "oneOf", "anyOf", "null", "properties"} :
       ~Has(schema, key)

Members(schema) == { schema.enum[i] : i \in 1..Len(schema.enum) }

AllStrings(schema) == \A m \in Members(schema) : m.t = "string"

EnumProbes == EnumValues \cup { JStr("zz"), JNum(2) }

\* C9: for a string-typed or untyped node with a non-empty enum, input
\* mode gives a closed allowed-value set (all strings) or a union of the literals
\* (mixed), both accepting the members and nothing else; output mode gives an
\* open string validator (all strings) or permissive-any (mixed), and rejects no
\* member of the enum.
C9_EnumsByMode ==
  (IsEnumNode(input) /\ pc \in {"compiledInput", "compiledOutput"}) =>
    IF pc = "compiledInput"
      THEN \A v \in EnumProbes : Accepts(Core(output.expr), v) <=> v \in Members(input)
      ELSE /\ Core(output.expr) = IF AllStrings(input) THEN ZString ELSE ZAny
           /\ \A v \in Members(input) : Accepts(output.expr, v)

\* ---------------------------------------------------------------- C15
\* The meaning of a schema with every reference followed, independent of the
\* compiler.  An object may only carry keys some part of its schema declares,
\* unless the schema allows additional properties.
RECURSIVE DeclaredKeys(_, _, _)
DeclaredKeys(doc, schema, fuel) ==
  IF fuel = 0 THEN {}
  ELSE IF Has(schema, "ref")
    THEN IF LookupFails(doc, schema.ref) THEN {}
         ELSE DeclaredKeys(doc, TargetOf(doc, schema.ref), fuel - 1)
  ELSE (IF Has(schema, "properties") THEN DOMAIN schema.properties ELSE {})
       \cup UNION { DeclaredKeys(doc, b, fuel - 1) :
                     b \in UNION { Branches(schema, key) :
                                     key \in {"allOf", "oneOf", "anyOf"} \cap DOMAIN schema } }

RECURSIVE AllowsUnknownKeys(_, _, _)
AllowsUnknownKeys(doc, schema, fuel) ==
  IF fuel = 0 THEN FALSE
  ELSE IF Has(schema, "ref")
    THEN ~LookupFails(doc, schema.ref)
         /\ AllowsUnknownKeys(doc, TargetOf(doc, schema.ref), fuel - 1)
  ELSE ApTruthy(schema)

RECURSIVE ValidUnder(_, _, _, _)
RECURSIVE Conforms(_, _, _, _)

\* v satisfies every keyword of the schema, a property map or an allOf
\* composition describing objects only; FALSE when references run deeper than fuel
Conforms(doc, schema, v, fuel) ==
  IF fuel = 0 THEN FALSE
  ELSE IF Has(schema, "ref")
    THEN ~LookupFails(doc, schema.ref)
         /\ Conforms(doc, TargetOf(doc, schema.ref), v, fuel - 1)
  ELSE IF v.t = "null" /\ Has(schema, "nullable") THEN TRUE
  ELSE
    /\ Has(schema, "allOf") =>
         \A i \in 1..Len(schema.allOf) : Conforms(doc, schema.allOf[i], v, fuel - 1)
    /\ Has(schema, "oneOf") =>
         Cardinality({ i \in 1..Len(schema.oneOf) :
                         Conforms(doc, schema.oneOf[i], v, fuel - 1) }) = 1
    /\ Has(schema, "anyOf") =>
         \E i \in 1..Len(schema.anyOf) : Conforms(doc, schema.anyOf[i], v, fuel - 1)
    /\ Has(schema, "type") =>
         v.t = IF schema.type = "integer" THEN "number" ELSE schema.type
    /\ (Has(schema, "properties") \/ Has(schema, "allOf")) => v.t = "object"
    /\ (ApTruthy(schema) /\ schema.additionalProperties # ApTrue /\ v.t = "object") =>
         \A key \in DOMAIN v.f \ DeclaredKeys(doc, schema, fuel) :
           ValidUnder(doc, schema.additionalProperties, v.f[key], fuel - 1)
    /\ Has(schema, "enum") => \E i \in 1..Len(schema.enum) : schema.enum[i] = v
    /\ (Has(schema, "properties") /\ v.t = "object") =>
         \A key \in DOMAIN schema.properties \cap DOMAIN v.f :
           ValidUnder(doc, schema.properties[key], v.f[key], fuel - 1)
    /\ (Has(schema, "required") /\ v.t = "object") =>
         \A i \in 1..Len(schema.required) : schema.required[i] \in DOMAIN v.f
    /\ (Has(schema, "items") /\ v.t = "array") =>
         \A i \in 1..Len(v.e) : ValidUnder(doc, schema.items, v.e[i], fuel - 1)

ValidUnder(doc, schema, v, fuel) ==
  /\ v.t \in {"string", "number", "null", "object", "array"}
  /\ Conforms(doc, schema, v, fuel)
  /\ (v.t = "object" /\ ~AllowsUnknownKeys(doc, schema, fuel)) =>
       DOMAIN v.f \subseteq DeclaredKeys(doc, schema, fuel)

\* C15: whatever was cut off while compiling (depth bound exceeded, reference
\* short-circuited by cycle tracking, oneOf/anyOf composition), the validator
\* compiled for a schema, under input mode as under output mode, accepts every
\* value that is valid under the schema with all its references followed; the
\* properties of a cut-off allOf branch are not rejected as unknown.
C15_NoFalseRejection ==
  (pc \in {"compiledInput", "compiledOutput"} /\ ~output.thrown) =>
    \A v \in SampleValues :
      ValidUnder(spec, input, v, MaxUnroll) => Accepts(output.expr, v)

\* ---------------------------------------------------------------- C16
Documented(schema) == Has(schema, "description") \/ Has(schema, "example")

\* the description followed by 'Example: ' and the JSON text of the example
DocumentationOf(schema) ==
  (IF Has(schema, "description")
     THEN << [part |-> "description", text |-> schema.description] >> ELSE << >>)
  \o (IF Has(schema, "example")
        THEN << [part |-> "example", json |-> schema.example] >> ELSE << >>)

\* the documentation a validator carries, looked for under optional and nullable
RECURSIVE CarriedDocumentation(_)
CarriedDocumentation(e) ==
  IF e.k = "describe" THEN e.text
  ELSE IF e.k \in {"optional", "nullable"} THEN CarriedDocumentation(e.inner)
  ELSE << >>

\* C16: the validator compiled for a node with a description and/or an example
\* carries the description followed by the example, whatever the kind of the
\* node (object, array, primitive, enum, reference with a sibling description,
\* allOf, oneOf/anyOf, node degraded to permissive-any), also after the parent
\* wrapped it as optional and/or nullable.
C16_DocumentationKept ==
  (pc \in {"compiledInput", "compiledOutput"} /\ ~output.thrown) =>
    /\ Documented(input) => CarriedDocumentation(output.expr) = DocumentationOf(input)
    /\ (IsPlainObject(input) /\ Core(output.expr).k = "object") =>
         \A key \in DOMAIN PropertiesOf(input) :
           Documented(PropertiesOf(input)[key]) =>
             CarriedDocumentation(Core(output.expr).shape[key])
               = DocumentationOf(PropertiesOf(input)[key])

\* ======================================================================
\* Synthesis of one tool: one operation of the document, one loop iteration of
\* generateTools.
\* ======================================================================
CollectionsList == <<"c","o","l","l","e","c","t","i","o","n","s",".","l","i","s","t">>

DocumentsDelete == <<"d","o","c","u","m","e","n","t","s",".","d","e","l","e","t","e">>

\* operation identifiers: read-indicating, destructive, both, neither, and
\* tokens in upper case or inside a longer word
Identifiers ==
  { CollectionsList, DocumentsDelete, <<"d","o","c","u","m","e","n","t","s",".","L","I","S","T">>, <<"v","i","e","w","s",".","D","e","l","e","t","e">>, <<"d","o","c","u","m","e","n","t","s",".","u","p","d","a","t","e">>, <<"e","n","l","i","s","t","e","d">>, <<"R","E","M","O","V","E">>, <<"d","e","s","t","r","o","y","H","i","s","t","o","r","y">> }

PathPing == <<"/","a","u","t","h",".","p","i","n","g">>

ObjectWithOneOf ==
  [type |-> "object", properties |-> [id |-> Str],
   oneOf |-> << [required |-> <<"id">>], [type |-> "object"] >>]

PagedObject == [type |-> "object", properties |-> [limit |-> Num, q |-> Str]]

RequestSchemas ==
  { Str, IdObject, SchemaRef("B"), SchemaRef("S"), SchemaRef("A"), SchemaRef("C1"),
    SchemaRef("C3"), [type |-> "array", items |-> IdObject],
    [properties |-> [id |-> Str]], ObjectWithOneOf, [oneOf |-> <<IdObject, Str>>],
    [anyOf |-> <<IdObject, Str>>, properties |-> [id |-> Str]],
    [allOf |-> <<SchemaRef("B"), IdObject>>], NestedObject(2), PagedObject,
    [type |-> "object", nullable |-> TRUE, description |-> "d"],
    Untyped, SchemaRef("Missing") }

ResponseSchemas ==
  { SchemaRef("B"), Str, [type |-> "array", items |-> SchemaRef("B")],
    SchemaRef("S"), SchemaRef("C1"), IdObject, ObjectWithOneOf, Untyped,
    [allOf |-> <<SchemaRef("B"), IdObject>>], SchemaRef("Missing") }

ToolOperations ==
  { id @@ req @@ r200 @@ r201 :
      id \in {Empty} \cup { [operationId |-> i] : i \in Identifiers },
      req \in {Empty} \cup { [requestSchema |-> r] : r \in RequestSchemas },
      r200 \in {Empty} \cup { [response200 |-> r] : r \in ResponseSchemas },
      r201 \in {Empty, [response201 |-> IdObject], [response201 |-> Str]} }

ToolEntries ==
  { [pathKey |-> path, method |-> "post", operation |-> o] :
      path \in {PathPing, PathX}, o \in ToolOperations }

InitTool ==
  /\ pc = "operation"
  /\ spec = CompileDoc
  /\ input \in ToolEntries
  /\ output = <<>>
  /\ opIndex = 1
  /\ tools = <<>>
  /\ artifact = NotWritten
  /\ requests = << >>

\* the loop body up to tools.push (lines 269-298)
SynthesizeTool ==
  /\ pc = "operation"
  /\ ~BuildTool(spec, input).thrown
  /\ output' = BuildTool(spec, input).tool
  /\ pc' = "tool"
  /\ UNCHANGED <<spec, opIndex, tools, artifact, input, requests>>

\* the loop body when resolveRef throws
SynthesizeThrows ==
  /\ pc = "operation"
  /\ BuildTool(spec, input).thrown
  /\ pc' = "rejected"
  /\ UNCHANGED <<spec, opIndex, tools, artifact, input, output, requests>>

NextTool == SynthesizeTool \/ SynthesizeThrows

SpecTool == InitTool /\ [][NextTool]_vars

\* ---------------------------------------------------------------- C11
\* C11: every generated tool has an input validator and it is an object
\* validator: the empty strict object when the operation declares no request
\* schema, the resolved request schema compiled under input mode when it has an
\* object shape, and otherwise a strict object whose one field 'payload' holds
\* the compiled schema.
C11_InputIsObject ==
  pc = "tool" =>
    /\ Core(output.inputSchema).k = "object"
    /\ ~Has(input.operation, "requestSchema") =>
         output.inputSchema = EmptyStrictObject
    /\ Has(input.operation, "requestSchema") =>
         LET r == derefSchema(spec, input.operation.requestSchema, {}, 0).val
         IN  output.inputSchema =
               IF IsObjectShape(r)
                 THEN schemaToZodExpression(spec, r, "input", 0, {}).expr
                 ELSE ZObject(
                        [payload |-> schemaToZodExpression(spec, r, "input", 0, {}).expr],
                        "strict", ZAny)

\* ---------------------------------------------------------------- C12
\* the 200 response schema if declared, otherwise the 201 one
ChosenResponse(operation) ==
  IF Has(operation, "response200") THEN << operation.response200 >>
  ELSE IF Has(operation, "response201") THEN << operation.response201 >>
  ELSE << >>

\* C12: a tool has an output validator exactly when the chosen response schema
\* (200, otherwise 201) resolves to an object shape; the validator is then that
\* schema compiled under output mode, and it is absent in every other case.
C12_OutputWhenObject ==
  pc = "tool" =>
    LET chosen == ChosenResponse(input.operation)
    IN  IF chosen # << >> /\ IsObjectShape(derefSchema(spec, chosen[1], {}, 0).val)
          THEN /\ output.outputSchema # NoOutputSchema
               /\ output.outputSchema
                    = schemaToZodExpression(spec, chosen[1], "output", 0, {}).expr
          ELSE output.outputSchema = NoOutputSchema

\* no 200 response and an object-shaped 201 response: the 201 schema is compiled
C12_Witness ==
  /\ pc = "tool"
  /\ ~Has(input.operation, "response200")
  /\ Has(input.operation, "response201")
  /\ input.operation.response201 = IdObject
  /\ output.outputSchema = ZObject([id |-> ZString], "passthrough", ZAny)

\* ---------------------------------------------------------------- C13
\* the identifier the annotations are derived from
IdentifierOf(entry) ==
  IF Has(entry.operation, "operationId")
    THEN entry.operation.operationId
    ELSE Tail(entry.pathKey)

\* some stretch of the identifier is, letter case aside, one of the tokens
ContainsToken(id, tokens) ==
  \E i \in 1..Len(id) : \E j \in i..Len(id) :
    [n \in 1..(j - i + 1) |-> LowerChar(id[i + n - 1])] \in tokens

\* C13: for every generated tool openWorld is true, readOnly is true exactly when
\* the identifier contains a read-indicating token whatever the letter case,
\* destructive exactly when it contains delete, remove or destroy, idempotent
\* equals readOnly, and the two matches are independent; 'collections.list'
\* gives {readOnly, not destructive, idempotent, openWorld} and
\* 'documents.delete' gives {not readOnly, destructive, not idempotent, openWorld}.
C13_Annotations ==
  pc = "tool" =>
    /\ output.annotations.openWorldHint
    /\ output.annotations.readOnlyHint
         <=> ContainsToken(IdentifierOf(input), READ_ONLY_PATTERN)
    /\ output.annotations.destructiveHint
         <=> ContainsToken(IdentifierOf(input),
                           { <<"d","e","l","e","t","e">>, <<"r","e","m","o","v","e">>, <<"d","e","s","t","r","o","y">> })
    /\ output.annotations.idempotentHint = output.annotations.readOnlyHint
    /\ IdentifierOf(input) = CollectionsList =>
         output.annotations = [readOnlyHint |-> TRUE, destructiveHint |-> FALSE,
                               idempotentHint |-> TRUE, openWorldHint |-> TRUE]
    /\ IdentifierOf(input) = DocumentsDelete =>
         output.annotations = [readOnlyHint |-> FALSE, destructiveHint |-> TRUE,
                               idempotentHint |-> FALSE, openWorldHint |-> TRUE]

\* an identifier matching both token sets, one of them in mixed case
C13_Witness ==
  /\ pc = "tool"
  /\ IdentifierOf(input) = <<"v","i","e","w","s",".","D","e","l","e","t","e">>
  /\ output.annotations.readOnlyHint
  /\ output.annotations.destructiveHint

\* ======================================================================
\* Name derivation as a state machine: one operation, one derived name.
\* ======================================================================
NameAlphabet == {"a", "b", "B", "C", "1", ".", "/", "_", "-"}

RECURSIVE StringsUpTo(_)
StringsUpTo(n) ==
  IF n = 0 THEN { <<>> }
  ELSE LET shorter == StringsUpTo(n - 1)
       IN  shorter \cup { Append(s, c) : s \in { t \in shorter : Len(t) = n - 1 },
                                         c \in NameAlphabet }

DocumentsInfo == <<"d","o","c","u","m","e","n","t","s",".","i","n","f","o">>

AuthInfoPath == <<"/","a","u","t","h",".","i","n","f","o">>

NameInputs ==
  { [operation |-> [operationId |-> s], pathKey |-> <<"/", "p">>] :
      s \in StringsUpTo(MaxNameLen) \cup {DocumentsInfo} }
  \cup
  { [operation |-> Empty, pathKey |-> s] :
      s \in StringsUpTo(MaxNameLen) \cup {AuthInfoPath} }

NoDoc == [paths |-> <<>>, components |-> [schemas |-> Empty]]

InitName ==
  /\ pc = "deriveName"
  /\ input \in NameInputs
  /\ output = <<>>
  /\ spec = NoDoc
  /\ opIndex = 1
  /\ tools = <<>>
  /\ artifact = [written |-> FALSE, tools |-> <<>>]
  /\ requests = << >>

\* lines 269-271 of generateTools for the one operation
DeriveName ==
  /\ pc = "deriveName"
  /\ output' = ToolName(input.operation, input.pathKey)
  /\ pc' = "named"
  /\ UNCHANGED <<spec, opIndex, tools, artifact, input, requests>>

NextName == DeriveName

SpecName == InitName /\ [][NextName]_vars

\* ---- the steps of the claim, stated position by position
\* the positions i of s after which an underscore is inserted
BoundariesOf(s, Left) ==
  { i \in 1..(Len(s) - 1) : s[i] \in Left /\ s[i + 1] \in UpperLetters }

\* s with "_" inserted after every position of B
InsertAfter(s, B) ==
  [j \in 1..(Len(s) + Cardinality(B)) |->
     IF \E i \in 1..Len(s) : j = i + Cardinality({b \in B : b < i})
       THEN s[CHOOSE i \in 1..Len(s) : j = i + Cardinality({b \in B : b < i})]
       ELSE "_"]

\* s restricted to the positions K, in order
Restrict(s, K) ==
  [j \in 1..Cardinality(K) |->
     s[CHOOSE i \in K : Cardinality({k \in K : k <= i}) = j]]

\* every run of underscores keeps its first underscore only
CollapsedRuns(s) ==
  Restrict(s, { i \in 1..Len(s) : ~(s[i] = "_" /\ i > 1 /\ s[i - 1] = "_") })

StepsOfClaim(s, Left) ==
  LET dotted == [i \in 1..Len(s) |-> IF s[i] = "." THEN "_" ELSE s[i]]
      split == InsertAfter(dotted, BoundariesOf(dotted, Left))
      cleaned == [i \in 1..Len(split) |->
                    IF split[i] \in WordChars THEN split[i] ELSE "_"]
      collapsed == CollapsedRuns(cleaned)
  IN  [i \in 1..Len(collapsed) |->
         IF \E n \in 1..Len(LetterPairs) : LetterPairs[n][2] = collapsed[i]
           THEN LetterPairs[CHOOSE n \in 1..Len(LetterPairs) :
                              LetterPairs[n][2] = collapsed[i]][1]
           ELSE collapsed[i]]

WithoutLeadingSlash(s) ==
  IF s # <<>> /\ s[1] = "/" THEN SubSeq(s, 2, Len(s)) ELSE s

\* C10 as stated: the identifier is transformed as it is (only a path loses its
\* leading slash) and an underscore goes between a lowercase letter and a
\* following uppercase letter, nowhere else.
C10_AsClaimed ==
  pc = "named" =>
    output = NamePrefix \o
      StepsOfClaim(IF Has(input.operation, "operationId")
                     THEN input.operation.operationId
                     ELSE WithoutLeadingSlash(input.pathKey),
                   LowerLetters)

\* C10 amended: the tool name is "outline_" followed by the identifier without
\* one leading slash (or, when there is none, the path without its leading slash
\* and without one more slash that may follow it), with '.' replaced by '_', an underscore inserted at every boundary between a lowercase
\* letter OR DIGIT and a following uppercase letter (and nowhere else), every
\* character outside [a-zA-Z0-9_] replaced by '_', underscore runs collapsed and
\* the result lowercased; 'documents.info' gives 'outline_documents_info' and the
\* path '/auth.info' without identifier gives 'outline_auth_info'.
C10_ToolName ==
  pc = "named" =>
    /\ output = NamePrefix \o
         StepsOfClaim(IF Has(input.operation, "operationId")
                        THEN WithoutLeadingSlash(input.operation.operationId)
                        ELSE WithoutLeadingSlash(WithoutLeadingSlash(input.pathKey)),
                      LowerLetters \cup Digits)
    /\ (Has(input.operation, "operationId")
          /\ input.operation.operationId = DocumentsInfo
        => output = <<"o","u","t","l","i","n","e","_","d","o","c","u","m","e",
                      "n","t","s","_","i","n","f","o">>)
    /\ (~Has(input.operation, "operationId") /\ input.pathKey = AuthInfoPath
        => output = <<"o","u","t","l","i","n","e","_","a","u","t","h","_",
                      "i","n","f","o">>)

\* a name derived from an identifier with a digit directly before an uppercase letter
C10_Witness ==
  /\ pc = "named"
  /\ Has(input.operation, "operationId")
  /\ input.operation.operationId = <<"a", "1", "B">>
  /\ output = NamePrefix \o <<"a", "1", "_", "b">>



\* ======================================================================
\* The server (src/index.ts): start-up of the process, from the command line
\* and the environment to the running transport.
\* ======================================================================
ArgHttp == <<"-","-","h","t","t","p">>

ArgStdio == <<"-","-","s","t","d","i","o">>

ArgHelp == <<"-","-","h","e","l","p">>

ArgH == <<"-","h">>

ArgPort == <<"-","-","p","o","r","t">>

ArgPortEq == <<"-","-","p","o","r","t","=">>

StartsWith(s, prefix) ==
  Len(s) >= Len(prefix) /\ SubSeq(s, 1, Len(prefix)) = prefix

DigitValue(c) ==
  CASE c = "0" -> 0 [] c = "1" -> 1 [] c = "2" -> 2 [] c = "3" -> 3 [] c = "4" -> 4
    [] c = "5" -> 5 [] c = "6" -> 6 [] c = "7" -> 7 [] c = "8" -> 8 [] c = "9" -> 9

\* Number(value) of a non-empty string: [nan, n]; a string of decimal digits is
\* its value, anything else used here is NaN
RECURSIVE DecimalValue(_)
DecimalValue(s) ==
  IF Len(s) = 0 THEN 0
  ELSE 10 * DecimalValue(SubSeq(s, 1, Len(s) - 1)) + DigitValue(s[Len(s)])

NumberOf(value) ==
  IF \A i \in 1..Len(value) : value[i] \in Digits
    THEN [nan |-> FALSE, n |-> DecimalValue(value)]
    ELSE [nan |-> TRUE, n |-> 0]

\* parsePort (lines 39-45): [thrown, port]
parsePort(value) ==
  IF NumberOf(value).nan \/ NumberOf(value).n < 0 \/ NumberOf(value).n > 65535
    THEN [thrown |-> TRUE, port |-> 0]
    ELSE [thrown |-> FALSE, port |-> NumberOf(value).n]

\* the loop of parseCliOptions from position index on, options being what the
\* earlier arguments set (lines 49-80): [thrown, options]
RECURSIVE ParseFrom(_, _, _)
ParseFrom(argv, index, options) ==
  IF index > Len(argv) THEN [thrown |-> FALSE, options |-> options]
  ELSE IF argv[index] = ArgHttp
    THEN ParseFrom(argv, index + 1, [transportMode |-> "http"] @@ options)
  ELSE IF argv[index] = ArgStdio
    THEN ParseFrom(argv, index + 1, [transportMode |-> "stdio"] @@ options)
  ELSE IF argv[index] \in {ArgH, ArgHelp}
    THEN ParseFrom(argv, index + 1, [showHelp |-> TRUE] @@ options)
  ELSE IF argv[index] = ArgPort
    THEN IF index + 1 > Len(argv) \/ argv[index + 1] = << >>
           THEN [thrown |-> TRUE, options |-> options]
         ELSE IF parsePort(argv[index + 1]).thrown
           THEN [thrown |-> TRUE, options |-> options]
         ELSE ParseFrom(argv, index + 2,
                        [port |-> parsePort(argv[index + 1]).port] @@ options)
  ELSE IF StartsWith(argv[index], ArgPortEq)
    THEN IF Len(argv[index]) = Len(ArgPortEq)
           THEN [thrown |-> TRUE, options |-> options]
         ELSE IF parsePort(SubSeq(argv[index], Len(ArgPortEq) + 1,
                                  Len(argv[index]))).thrown
           THEN [thrown |-> TRUE, options |-> options]
         ELSE ParseFrom(argv, index + 1,
                        [port |-> parsePort(SubSeq(argv[index], Len(ArgPortEq) + 1,
                                                   Len(argv[index]))).port]
                          @@ options)
  ELSE ParseFrom(argv, index + 1, options)

\* argv here is process.argv from index 2 on
parseCliOptions(argv) == ParseFrom(argv, 1, Empty)

\* process.env.MCP_PORT || cliOptions.port ? "http" : "stdio" (line 311);
\* the empty string and the number 0 are falsy
PortDefault(options, env) ==
  IF (Has(env, "MCP_PORT") /\ env.MCP_PORT # << >>)
     \/ (Has(options, "port") /\ options.port # 0)
    THEN "http" ELSE "stdio"

\* cliOptions.transportMode ?? process.env.MCP_TRANSPORT ?? ... (lines 308-311)
TransportMode(options, env) ==
  IF Has(options, "transportMode") THEN options.transportMode
  ELSE IF Has(env, "MCP_TRANSPORT") THEN env.MCP_TRANSPORT
  ELSE PortDefault(options, env)

\* envPortValue ? parsePort(envPortValue) : undefined;
\* cliOptions.port ?? envPort ?? 0 (lines 351-353): [thrown, port]
ListenPort(options, env) ==
  IF Has(env, "MCP_PORT") /\ env.MCP_PORT # << >> /\ parsePort(env.MCP_PORT).thrown
    THEN [thrown |-> TRUE, port |-> 0]
  ELSE IF Has(options, "port") THEN [thrown |-> FALSE, port |-> options.port]
  ELSE IF Has(env, "MCP_PORT") /\ env.MCP_PORT # << >>
    THEN [thrown |-> FALSE, port |-> parsePort(env.MCP_PORT).port]
  ELSE [thrown |-> FALSE, port |-> 0]

Args ==
  { ArgHttp, ArgStdio, ArgHelp, ArgH, ArgPort, <<"8","0","8","0">>, <<"0">>, <<"7","0","0","0","0">>,
    <<"-","-","p","o","r","t","=","8","0","8","0">>, <<"-","-","p","o","r","t","=","0">>, ArgPortEq, <<"-","-","p","o","r","t","=","x">>, <<"x">> }

Environments ==
  { t @@ q :
      t \in { Empty, [MCP_TRANSPORT |-> "http"], [MCP_TRANSPORT |-> "stdio"],
              [MCP_TRANSPORT |-> ""], [MCP_TRANSPORT |-> "sse"] },
      q \in { Empty, [MCP_PORT |-> <<"3","0","0","0">>], [MCP_PORT |-> << >>],
              [MCP_PORT |-> <<"x">>] } }

InitStartup ==
  /\ pc = "main"
  /\ input \in { [argv |-> a, env |-> e] : a \in SeqsUpTo(Args, MaxArgs),
                                           e \in Environments }
  /\ output = Empty
  /\ spec = NoDoc
  /\ opIndex = 1
  /\ tools = << >>
  /\ artifact = NotWritten
  /\ requests = << >>

\* const cliOptions = parseCliOptions(process.argv) (line 293)
ParseCli ==
  /\ pc = "main"
  /\ ~parseCliOptions(input.argv).thrown
  /\ output' = [options |-> parseCliOptions(input.argv).options]
  /\ pc' = "parsed"
  /\ UNCHANGED <<spec, opIndex, tools, artifact, input, requests>>

\* parseCliOptions throws: main() rejects
ParseCliThrows ==
  /\ pc = "main"
  /\ parseCliOptions(input.argv).thrown
  /\ pc' = "rejected"
  /\ UNCHANGED <<spec, opIndex, tools, artifact, input, output, requests>>

\* if (cliOptions.showHelp) { console.log(getHelpText()); return; }
ShowHelp ==
  /\ pc = "parsed"
  /\ Has(output.options, "showHelp")
  /\ pc' = "helpShown"
  /\ UNCHANGED <<spec, opIndex, tools, artifact, input, output, requests>>

\* lines 308-312
SelectTransport ==
  /\ pc = "parsed"
  /\ ~Has(output.options, "showHelp")
  /\ output' = [transportMode |-> TransportMode(output.options, input.env)] @@ output
  /\ pc' = "selected"
  /\ UNCHANGED <<spec, opIndex, tools, artifact, input, requests>>

\* lines 337-342
ConnectStdio ==
  /\ pc = "selected"
  /\ output.transportMode = "stdio"
  /\ pc' = "stdio"
  /\ UNCHANGED <<spec, opIndex, tools, artifact, input, output, requests>>

\* lines 344-393
ListenHttp ==
  /\ pc = "selected"
  /\ output.transportMode # "stdio"
  /\ ~ListenPort(output.options, input.env).thrown
  /\ output' = [port |-> ListenPort(output.options, input.env).port] @@ output
  /\ pc' = "listening"
  /\ UNCHANGED <<spec, opIndex, tools, artifact, input, requests>>

\* parsePort(envPortValue) throws (line 352): main() rejects
EnvPortThrows ==
  /\ pc = "selected"
  /\ output.transportMode # "stdio"
  /\ ListenPort(output.options, input.env).thrown
  /\ pc' = "rejected"
  /\ UNCHANGED <<spec, opIndex, tools, artifact, input, output, requests>>

\* main().catch: console.error(error); process.exit(1) (lines 396-399)
ExitServerOnError ==
  /\ pc = "rejected"
  /\ pc' = "exited"
  /\ UNCHANGED <<spec, opIndex, tools, artifact, input, output, requests>>

NextStartup ==
  \/ ParseCli \/ ParseCliThrows \/ ShowHelp \/ SelectTransport
  \/ ConnectStdio \/ ListenHttp \/ EnvPortThrows \/ ExitServerOnError

SpecStartup == InitStartup /\ [][NextStartup]_vars

\* ---------------------------------------------------------------- C14
\* the transport flags on the command line, in order
TransportFlags(argv) == SelectSeq(argv, LAMBDA a : a \in {ArgHttp, ArgStdio})

\* C14: once the transport is selected, it is stdio whenever there is no
\* transport flag on the command line, MCP_TRANSPORT is not set and MCP_PORT is
\* not set, whatever the other options (--port with any valid value included); a
\* transport flag wins over MCP_TRANSPORT, and MCP_TRANSPORT over the default
\* that depends on MCP_PORT.
C14_TransportSelection ==
  pc \in {"selected", "stdio", "listening"} =>
    /\ (TransportFlags(input.argv) = << >> /\ ~Has(input.env, "MCP_TRANSPORT")
          /\ ~Has(input.env, "MCP_PORT")) => output.transportMode = "stdio"
    /\ TransportFlags(input.argv) # << >> =>
         output.transportMode =
           IF TransportFlags(input.argv)[Len(TransportFlags(input.argv))] = ArgHttp
             THEN "http" ELSE "stdio"
    /\ (TransportFlags(input.argv) = << >> /\ Has(input.env, "MCP_TRANSPORT")) =>
         output.transportMode = input.env.MCP_TRANSPORT


\* ======================================================================
\* The server in HTTP mode: the request handler of http.createServer
\* (lines 355-386), one async invocation per request in flight.
\* ======================================================================
McpPath == <<"/","m","c","p">>

ApplicationJson == <<"a","p","p","l","i","c","a","t","i","o","n","/","j","s","o","n">>

\* JSON.parse(rawBody): [thrown, value], for the texts sent here
JSONParse(raw) ==
  IF raw = <<"{","}">> THEN [thrown |-> FALSE, value |-> JObj(Empty)]
  ELSE IF raw # << >> /\ \A i \in 1..Len(raw) : raw[i] \in Digits
    THEN [thrown |-> FALSE, value |-> JNum(DecimalValue(raw))]
  ELSE [thrown |-> TRUE, value |-> Undefined]

\* the requests a client sends: with or without a URL, to the endpoint, below
\* it or elsewhere; bodies that are JSON, that are not, or empty
HttpRequests ==
  { u @@ [method |-> m, contentType |-> b[1], rawBody |-> b[2]] :
      u \in { Empty, [url |-> McpPath], [url |-> <<"/","m","c","p","/","x">>], [url |-> <<"/","x">>] },
      m \in { "POST", "GET" },
      b \in { <<ApplicationJson, <<"{","}">>>>, <<ApplicationJson, <<"{">>>>,
              <<<<"a","p","p","l","i","c","a","t","i","o","n","/","j","s","o","n",";"," ","c","h","a","r","s","e","t","=","u","t","f","-","8">>, <<"{">>>>, <<ApplicationJson, << >> >>,
              <<<<"t","e","x","t","/","p","l","a","i","n">>, <<"{">>>> } }

Idle == [at |-> "idle"]

NoResponse == [statusCode |-> 200, headersSent |-> FALSE, ended |-> FALSE]

\* res.statusCode = code; res.end(text)
Ended(code) == [statusCode |-> code, headersSent |-> TRUE, ended |-> TRUE]

\* the state after httpServer.listen: started with --http, no request yet
InitHttp ==
  /\ pc = "listening"
  /\ input = [argv |-> << ArgHttp >>, env |-> Empty]
  /\ output = [options |-> [transportMode |-> "http"], transportMode |-> "http",
               port |-> 0]
  /\ requests = [i \in 1..MaxRequests |-> Idle]
  /\ spec = NoDoc
  /\ opIndex = 1
  /\ tools = << >>
  /\ artifact = NotWritten

\* req.url && req.url.startsWith("/mcp")
IsMcpRequest(req) ==
  IF Has(req, "url") THEN StartsWith(req.url, McpPath) ELSE FALSE

\* a request comes in: the handler is called with (req, res)
Arrive(i) ==
  /\ pc = "listening"
  /\ requests[i].at \in {"idle", "done"}
  /\ \E r \in HttpRequests :
       requests' = [requests EXCEPT ![i] = [at |-> "route", req |-> r,
                                            res |-> NoResponse]]
  /\ UNCHANGED <<pc, spec, opIndex, tools, artifact, input, output>>

\* !req.url || !req.url.startsWith("/mcp") (lines 356-360)
NotFound(i) ==
  /\ pc = "listening"
  /\ requests[i].at = "route"
  /\ ~IsMcpRequest(requests[i].req)
  /\ requests' = [requests EXCEPT ![i].at = "done", ![i].res = Ended(404)]
  /\ UNCHANGED <<pc, spec, opIndex, tools, artifact, input, output>>

\* the request is for the endpoint: on to the body of a POST (line 365)
Route(i) ==
  /\ pc = "listening"
  /\ requests[i].at = "route"
  /\ IsMcpRequest(requests[i].req)
  /\ requests' = [requests EXCEPT
                    ![i].at = IF requests[i].req.method = "POST"
                                THEN "readBody" ELSE "handle"]
  /\ UNCHANGED <<pc, spec, opIndex, tools, artifact, input, output>>

\* for await (const chunk of req) runs to the end of the stream (lines 366-370)
ReadBody(i) ==
  /\ pc = "listening"
  /\ requests[i].at = "readBody"
  /\ requests' = [requests EXCEPT ![i].at = "parse"]
  /\ UNCHANGED <<pc, spec, opIndex, tools, artifact, input, output>>

\* the stream fails while it is read: the for await throws, outside any try
ReadBodyThrows(i) ==
  /\ pc = "listening"
  /\ requests[i].at = "readBody"
  /\ requests' = [requests EXCEPT
                    ![i] = [error |-> "stream"] @@ [requests[i] EXCEPT !.at = "threw"]]
  /\ UNCHANGED <<pc, spec, opIndex, tools, artifact, input, output>>

\* rawBody && contentType.includes("application/json")
ShouldParse(req) ==
  req.rawBody # << >> /\ Occurs({ApplicationJson}, req.contentType)

\* lines 371-374: parsedBody = JSON.parse(rawBody) when there is a JSON body
ParseBody(i) ==
  /\ pc = "listening"
  /\ requests[i].at = "parse"
  /\ ShouldParse(requests[i].req) => ~JSONParse(requests[i].req.rawBody).thrown
  /\ requests' = [requests EXCEPT ![i].at = "handle"]
  /\ UNCHANGED <<pc, spec, opIndex, tools, artifact, input, output>>

\* JSON.parse throws (line 373), outside the try of line 377
ParseBodyThrows(i) ==
  /\ pc = "listening"
  /\ requests[i].at = "parse"
  /\ ShouldParse(requests[i].req)
  /\ JSONParse(requests[i].req.rawBody).thrown
  /\ requests' = [requests EXCEPT
                    ![i] = [error |-> "SyntaxError"] @@ [requests[i] EXCEPT !.at = "threw"]]
  /\ UNCHANGED <<pc, spec, opIndex, tools, artifact, input, output>>

\* await transport.handleRequest(req, res, parsedBody) returns: the transport
\* has written the response
Handle(i) ==
  /\ pc = "listening"
  /\ requests[i].at = "handle"
  /\ \E code \in {200, 400} :
       requests' = [requests EXCEPT ![i].at = "done", ![i].res = Ended(code)]
  /\ UNCHANGED <<pc, spec, opIndex, tools, artifact, input, output>>

\* handleRequest throws before any header was sent: the catch answers 500
\* (lines 379-384)
HandleThrows(i) ==
  /\ pc = "listening"
  /\ requests[i].at = "handle"
  /\ requests' = [requests EXCEPT ![i].at = "done", ![i].res = Ended(500)]
  /\ UNCHANGED <<pc, spec, opIndex, tools, artifact, input, output>>

\* handleRequest throws after the headers went out: the catch only logs
HandleThrowsLate(i) ==
  /\ pc = "listening"
  /\ requests[i].at = "handle"
  /\ \E ended \in BOOLEAN :
       requests' = [requests EXCEPT
                      ![i].at = "done",
                      ![i].res = [statusCode |-> 200, headersSent |-> TRUE,
                                  ended |-> ended]]
  /\ UNCHANGED <<pc, spec, opIndex, tools, artifact, input, output>>

\* the promise of the handler rejects and nothing awaits it: an unhandled
\* rejection, which by default ends the process
RejectionEndsProcess(i) ==
  /\ pc = "listening"
  /\ requests[i].at = "threw"
  /\ pc' = "crashed"
  /\ UNCHANGED <<spec, opIndex, tools, artifact, input, output, requests>>

\* where unhandled rejections only warn, the process goes on and nothing ever
\* writes to res
RejectionIsLogged(i) ==
  /\ pc = "listening"
  /\ requests[i].at = "threw"
  /\ requests' = [requests EXCEPT ![i].at = "abandoned"]
  /\ UNCHANGED <<pc, spec, opIndex, tools, artifact, input, output>>

\* the steps the event loop takes for the request in slot i
HandlerStep(i) ==
  \/ NotFound(i) \/ Route(i) \/ ReadBody(i) \/ ReadBodyThrows(i)
  \/ ParseBody(i) \/ ParseBodyThrows(i)
  \/ Handle(i) \/ HandleThrows(i) \/ HandleThrowsLate(i)
  \/ RejectionEndsProcess(i) \/ RejectionIsLogged(i)

NextHttp == \E i \in 1..MaxRequests : Arrive(i) \/ HandlerStep(i)

\* the event loop runs every continuation that is ready
SpecHttp ==
  InitHttp /\ [][NextHttp]_vars /\ \A i \in 1..MaxRequests : WF_vars(HandlerStep(i))

\* ---------------------------------------------------------------- C18
\* the request in slot i has its response, or at least the headers of it
Answered(i) == requests[i].at = "done" /\ requests[i].res.headersSent

\* C18: in HTTP mode every request that comes in is eventually answered and the
\* server keeps serving: a request whose URL does not start with '/mcp' gets
\* 404, and a failure while reading, parsing or handling a '/mcp' request ends
\* in a response (500 when no headers were sent yet), never in a request left
\* without an answer or an error nobody handles.
C18_EveryRequestAnswered ==
  /\ [](pc = "listening")
  /\ [](\A i \in 1..MaxRequests :
          /\ requests[i].at \notin {"threw", "abandoned"}
          /\ (requests[i].at = "done" /\ ~IsMcpRequest(requests[i].req))
               => requests[i].res = Ended(404))
  /\ \A i \in 1..MaxRequests : (requests[i].at = "route") ~> Answered(i)

====
